---- MODULE Spec2Model ----
(***************************************************************************)
(* gcp-quota-exporter: the Exporter (scrape, Collect, Describe, the       *)
(* retrying transport set up by NewExporter) and main's start-up with the  *)
(* registration of the Exporter, in the three revisions of main.go the     *)
(* repository holds:                                                       *)
(*   RevBackoff  src/go.mod 15-178        getProjectQuotas/getRegionQuotas *)
(*               with a hand-written retry loop and log.Fatal              *)
(*   RevUp       src/main.go              scrape() with one "up" value     *)
(*   RevDual     src/unnamed/part_002     scrape() with one result per API *)
(***************************************************************************)
EXTENDS Integers, Sequences, FiniteSets, TLC

RevBackoff == "backoff"
RevUp == "up"
RevDual == "dual"
Revisions == {RevBackoff, RevUp, RevDual}

(* ------------------------------ bounds --------------------------------- *)
\* Collect invocations the pull server makes in one run
MaxCollects == 3
\* largest value given to --gcp.max-retries and to --backoff-limit
MaxRetries == 2

\* goroutines of the pull server that may call Collect
Collectors == {1, 2}

\* a Go pointer: nil, or the object it points to
Nil == <<>>
Ptr(x) == <<x>>
Deref(p) == p[1]

\* a Go error: nil, or the failure of the request (see Outcomes)
NoErr == 0

\* sync.RWMutex not held
Free == 0

(* ------------------------------ upstream ------------------------------- *)
\* what one HTTP round trip can end in: a status, or no response at all
NetErr == -1
\* http.Client.Timeout cancelled the request
Timeout == -2
Statuses == {200, 404, 503}
Outcomes == Statuses \cup {NetErr}

Quota(m, l, u) == [Metric |-> m, Limit |-> l, Usage |-> u]
Region(n, qs) == [Name |-> n, Quotas |-> qs]

CPUS == Quota("CPUS", 24, 10)
DISKS == Quota("DISKS", 100, 5)
NoName == Quota("", 7, 0)

VARIABLES
    rev,              \* the revision of main.go that runs
    gcpMaxRetries,    \* --gcp.max-retries
    backoffLimit,     \* --backoff-limit (RevBackoff)
    gcpHttpTimeout,   \* --gcp.http-timeout, in ticks
    gcpMaxBackoffDuration, \* --gcp.max-backoff, in ticks
    gcpBackoffJitterBase,  \* --gcp.backoff-jitter, in ticks
    upstream,         \* the data the Google API holds
    env,              \* what main finds: flag, environment, files, metadata server
    mainpc,           \* where main is
    gcpProjectID,     \* *gcpProjectID
    consulted,        \* the sources main has read besides the flag
    exitCause,        \* why main ended the process, "" while it has not
    project,          \* Exporter.project
    describing,       \* the goroutine DescribeByCollect runs Collect on, 0 when none
    described,        \* the descriptors Describe has sent to the registry
    mutex,            \* Exporter.mutex: Free or the goroutine holding it
    process,          \* "running", "exited" (os.Exit / log.Fatal), "panicked"
    pc,               \* where each goroutine is in Collect
    prj,              \* scrape's / getProjectQuotas' project result
    rgl,              \* scrape's / getRegionQuotas' regionList result
    up,               \* scrape's up result (RevUp)
    err,              \* the err local of the function making the call
    n,                \* the retry loop's n (RevBackoff)
    attempt,          \* rehttp's attempt index of the call in progress
    elapsed,          \* ticks since the call in progress started
    sent,             \* what the upstream answered so far in the call in progress
    slept,            \* the sleeps between the attempts of the call in progress
    qi,               \* index of the quota being sent
    ri,               \* index of the region being sent
    ch,               \* the metrics sent on ch by the goroutine's latest Collect
    answered,         \* how the upstream saw the two calls of that Collect end
    collects,         \* Collect invocations started
    projectCalls,     \* Projects.Get(...).Do() calls made
    regionCalls,      \* Regions.List(...).Do() calls made
    failures          \* whether a request has ended in anything but a 200 in time

flags == <<rev, gcpMaxRetries, backoffLimit, gcpHttpTimeout,
           gcpMaxBackoffDuration, gcpBackoffJitterBase, upstream, env>>
boot == <<mainpc, gcpProjectID, consulted, exitCause, project, describing, described>>
config == <<flags, boot>>
locals == <<prj, rgl, up, err, n, attempt, elapsed, sent, slept, qi, ri>>
counters == <<collects, projectCalls, regionCalls, failures>>
serving == <<mutex, pc, locals, ch, answered, counters>>
vars == <<config, mutex, process, pc, locals, ch, answered, counters>>

(* ------------------------------ metrics -------------------------------- *)
limitDesc == "gcp_quota_limit"
usageDesc == "gcp_quota_usage"
upDesc == "up"
projectQuotaUpDesc == "gcp_quota_project_up"
regionsQuotaUpDesc == "gcp_quota_regions_up"

\* prometheus.MustNewConstMetric(desc, GaugeValue, value, labels...)
MustNewConstMetric(desc, value, labels) ==
    [desc |-> desc, value |-> value, labels |-> labels]

(* --------------------------- the transport ----------------------------- *)
gcpRetryStatuses == {503}

\* ticks one round trip may take
AttemptTicks == {0, 1}

RECURSIVE Pow2(_)
Pow2(k) == IF k = 0 THEN 1 ELSE 2 * Pow2(k - 1)

Min(a, b) == IF a < b THEN a ELSE b

\* rehttp.RetryAll(RetryMaxRetries(max), RetryStatuses(statuses...)):
\* retry iff the attempt's index is below max and there is a response
\* whose status is one of statuses
Retry(index, outcome) ==
    /\ index < gcpMaxRetries
    /\ outcome \in Statuses
    /\ outcome \in gcpRetryStatuses

\* one sleep: its part fixed by the attempt's number and its random part
Sleep(fixed, jitter) == [fixed |-> fixed, jitter |-> jitter]

\* rehttp.ExpJitterDelay(jitter, max): a random duration below
\* min(max, jitter * 2^index)
ExpJitterDelay(index) ==
    0 .. (Min(gcpMaxBackoffDuration, gcpBackoffJitterBase * Pow2(index)) - 1)

\* the Go API client turns every answer but a 2xx into an error
IsError(outcome) == outcome # 200

(* ------------------------- Collect's control flow ---------------------- *)
Goto(p, q, r) == [pc |-> p, qi |-> q, ri |-> r]

\* the first region from r on whose Quotas the inner loop has to range
\* over, 0 when the outer loop is over
RECURSIVE NextRegion(_, _)
NextRegion(items, r) ==
    IF r > Len(items) THEN 0
    ELSE IF Len(items[r].Quotas) > 0 THEN r
    ELSE NextRegion(items, r + 1)

\* what follows the loop over regionList.Items
AfterRegions ==
    CASE rev = RevDual -> Goto("regionsUp", 0, 0)
      [] rev = RevUp -> Goto("up", 0, 0)
      [] OTHER -> Goto("return", 0, 0)

\* for _, region := range regionList.Items, from region r on
RangeRegions(rg, r) ==
    IF rg = Nil THEN Goto("panic", 0, 0)
    ELSE LET nr == NextRegion(Deref(rg).Items, r)
         IN IF nr = 0 THEN AfterRegions ELSE Goto("regionLimit", 1, nr)

\* what follows the loop over project.Quotas
AfterProjectQuotas(rg) ==
    CASE rev = RevDual -> Goto("projectUp", 0, 0)
      [] rev = RevUp -> RangeRegions(rg, 1)
      [] OTHER -> Goto("regionLoop", 0, 0)

\* for _, quota := range project.Quotas
RangeProjectQuotas(p, rg) ==
    IF p = Nil THEN Goto("panic", 0, 0)
    ELSE IF Len(Deref(p).Quotas) > 0 THEN Goto("projectLimit", 1, 0)
    ELSE AfterProjectQuotas(rg)

\* Collect once scrape() has returned p and rg
AfterScrape(p, rg) ==
    IF rev = RevDual
    THEN IF p # Nil THEN RangeProjectQuotas(p, rg) ELSE Goto("projectUp", 0, 0)
    ELSE RangeProjectQuotas(p, rg)

\* Collect once the projectQuotaUp metric is sent (RevDual)
AfterProjectUp(rg) ==
    IF rg # Nil THEN RangeRegions(rg, 1) ELSE Goto("regionsUp", 0, 0)

\* goroutine t goes on at g: a nil dereference panics (the deferred Unlock
\* runs, then the runtime ends the process), log.Fatal and os.Exit end the
\* process at once, a return runs the deferred e.mutex.Unlock()
Jump(t, g) ==
    /\ pc' = [pc EXCEPT ![t] = IF g.pc = "return" THEN "done" ELSE g.pc]
    /\ qi' = [qi EXCEPT ![t] = g.qi]
    /\ ri' = [ri EXCEPT ![t] = g.ri]
    /\ process' = CASE g.pc = "panic" -> "panicked"
                    [] g.pc = "fatal" -> "exited"
                    [] OTHER -> process
    /\ mutex' = IF g.pc \in {"panic", "return"} THEN Free ELSE mutex

\* the locals of the call that has just returned are gone; a return from
\* Collect drops its results too
Advance(t, g, p, rg, u) ==
    /\ Jump(t, g)
    /\ prj' = [prj EXCEPT ![t] = IF g.pc \in {"return", "regionLoop"} THEN Nil ELSE p]
    /\ rgl' = [rgl EXCEPT ![t] = IF g.pc = "return" THEN Nil ELSE rg]
    /\ up' = [up EXCEPT ![t] = IF g.pc = "return" THEN 0 ELSE u]
    /\ err' = [err EXCEPT ![t] = NoErr]
    /\ n' = [n EXCEPT ![t] = 0]
    /\ attempt' = [attempt EXCEPT ![t] = 0]
    /\ elapsed' = [elapsed EXCEPT ![t] = 0]
    /\ sent' = [sent EXCEPT ![t] = <<>>]
    /\ slept' = [slept EXCEPT ![t] = <<>>]

Running == process = "running"

(* ------------------------------ Collect -------------------------------- *)
\* a Collect that goes on sending on the channel of the goroutine's
\* earlier Collect
EnterSameChannel(t) ==
    /\ collects' = collects + 1
    /\ pc' = [pc EXCEPT ![t] = "lock"]
    /\ answered' = [answered EXCEPT ![t] = [project |-> "none", regions |-> "none"]]
    /\ UNCHANGED <<mutex, locals, ch, projectCalls, regionCalls, failures>>

\* e.Collect(ch) starts on goroutine t with a channel of its own
Enter(t) ==
    /\ collects' = collects + 1
    /\ pc' = [pc EXCEPT ![t] = "lock"]
    /\ ch' = [ch EXCEPT ![t] = <<>>]
    /\ answered' = [answered EXCEPT ![t] = [project |-> "none", regions |-> "none"]]
    /\ UNCHANGED <<mutex, locals, projectCalls, regionCalls, failures>>

\* the pull server calls e.Collect(ch) on goroutine t
Collect(t) ==
    /\ Running
    /\ mainpc = "serving"
    /\ pc[t] \in {"idle", "done"}
    /\ collects < MaxCollects
    /\ Enter(t)
    /\ UNCHANGED <<config, process>>

\* a Lock that never waits
CanLockAlways == TRUE

\* sync.RWMutex.Lock returns only when nobody holds the mutex
CanLock == mutex = Free

\* a lock taken for reading, e.mutex.RLock(): it does not wait for other
\* readers
LockShared(t) ==
    /\ Running
    /\ pc[t] = "lock"
    /\ mutex' = t
    /\ pc' = [pc EXCEPT ![t] = IF rev = RevBackoff THEN "projectLoop" ELSE "projectsGet"]
    /\ UNCHANGED <<config, process, locals, ch, answered, counters>>

\* a Lock that gives up when the mutex is held: the Collect returns at
\* once, leaving the scrape to the cycle in progress
LockOrSkip(t) ==
    /\ Running
    /\ pc[t] = "lock"
    /\ mutex' = IF mutex = Free THEN t ELSE mutex
    /\ pc' = [pc EXCEPT ![t] = IF mutex # Free THEN "done"
                               ELSE IF rev = RevBackoff THEN "projectLoop"
                               ELSE "projectsGet"]
    /\ UNCHANGED <<config, process, locals, ch, answered, counters>>

\* e.mutex.Lock(); defer e.mutex.Unlock()
Lock(t) ==
    /\ Running
    /\ pc[t] = "lock"
    /\ CanLock
    /\ mutex' = t
    /\ pc' = [pc EXCEPT ![t] = IF rev = RevBackoff THEN "projectLoop" ELSE "projectsGet"]
    /\ UNCHANGED <<config, process, locals, ch, answered, counters>>

\* scrape: e.service.Projects.Get(e.project).Do() hands the request to the
\* rehttp transport
ProjectsGet(t) ==
    /\ Running
    /\ rev # RevBackoff
    /\ pc[t] = "projectsGet"
    /\ pc' = [pc EXCEPT ![t] = "projectsDo"]
    /\ projectCalls' = projectCalls + 1
    /\ UNCHANGED <<config, mutex, process, locals, ch, answered, collects, regionCalls, failures>>

\* scrape: e.service.Regions.List(e.project).Do()
RegionsList(t) ==
    /\ Running
    /\ rev # RevBackoff
    /\ pc[t] = "regionsList"
    /\ pc' = [pc EXCEPT ![t] = "regionsDo"]
    /\ regionCalls' = regionCalls + 1
    /\ UNCHANGED <<config, mutex, process, locals, ch, answered, collects, projectCalls, failures>>

\* what Do() hands back for outcome o
ProjectResult(o) == IF IsError(o) THEN Nil ELSE Ptr([Quotas |-> upstream.project])
RegionsResult(o) == IF IsError(o) THEN Nil ELSE Ptr([Items |-> upstream.regions])
Seen(o) == IF o = 200 THEN "ok" ELSE "failed"

\* the call in progress returns with outcome o, at ticks after its start:
\* project, err := ...Do() or regionList, err := ...Do()
Return(t, o, at) ==
    /\ pc' = [pc EXCEPT ![t] = IF pc[t] = "projectsDo" THEN "projectErr" ELSE "regionsErr"]
    /\ prj' = [prj EXCEPT ![t] = IF pc[t] = "projectsDo" THEN ProjectResult(o) ELSE @]
    /\ rgl' = [rgl EXCEPT ![t] = IF pc[t] = "regionsDo" THEN RegionsResult(o) ELSE @]
    /\ err' = [err EXCEPT ![t] = IF IsError(o) THEN o ELSE NoErr]
    /\ attempt' = [attempt EXCEPT ![t] = 0]
    /\ elapsed' = [elapsed EXCEPT ![t] = at]
    /\ sent' = [sent EXCEPT ![t] = <<>>]
    /\ slept' = [slept EXCEPT ![t] = <<>>]
    /\ answered' = [answered EXCEPT ![t] =
           IF pc[t] = "projectsDo" THEN [@ EXCEPT !.project = Seen(o)]
           ELSE [@ EXCEPT !.regions = Seen(o)]]
    /\ UNCHANGED <<mutex, process, up, n, qi, ri>>

\* rehttp.Transport.RoundTrip: one attempt; then either the result is
\* returned, or the transport sleeps ExpJitterDelay and tries again.
\* http.Client.Timeout cancels the request gcpHttpTimeout after its start,
\* in an attempt or in a sleep.
RoundTrip(t) ==
    /\ Running
    /\ pc[t] \in {"projectsDo", "regionsDo"}
    /\ \E d \in AttemptTicks, o \in Outcomes :
         LET at == elapsed[t] + d
         IN /\ failures' = (failures \/ at >= gcpHttpTimeout \/ o # 200)
            /\ IF at >= gcpHttpTimeout
               THEN Return(t, Timeout, gcpHttpTimeout)
               ELSE IF Retry(attempt[t], o)
               THEN \E delay \in ExpJitterDelay(attempt[t]) :
                      IF at + delay >= gcpHttpTimeout
                      THEN Return(t, Timeout, gcpHttpTimeout)
                      ELSE /\ attempt' = [attempt EXCEPT ![t] = @ + 1]
                           /\ elapsed' = [elapsed EXCEPT ![t] = at + delay]
                           /\ sent' = [sent EXCEPT ![t] = Append(@, o)]
                           /\ slept' = [slept EXCEPT ![t] = Append(@, Sleep(0, delay))]
                           /\ UNCHANGED <<mutex, process, pc, prj, rgl, up, err, n,
                                          qi, ri, answered>>
               ELSE Return(t, o, at)
    /\ UNCHANGED <<config, ch, collects, projectCalls, regionCalls>>

\* a scrape that answers a failed project call with the project data it
\* has from before
ScrapeLastGoodProject(p, e) ==
    [g |-> Goto("regionsList", 0, 0),
     prj |-> Ptr([Quotas |-> upstream.project]), rgl |-> Nil, up |-> 0]

\* scrape once Projects.Get(...).Do() has returned e
\*   RevUp:   an error makes scrape return 0, nil, nil at once
\*   RevDual: an error sets project = nil and scrape goes on
ScrapeAfterProject(p, e) ==
    IF rev = RevUp /\ e # NoErr
    THEN [g |-> AfterScrape(Nil, Nil), prj |-> Nil, rgl |-> Nil, up |-> 0]
    ELSE [g |-> Goto("regionsList", 0, 0),
          prj |-> IF e # NoErr THEN Nil ELSE p, rgl |-> Nil, up |-> 0]

\* scrape once Regions.List(...).Do() has returned e, and Collect after it
\*   RevUp:   an error makes scrape return 0, nil, nil, else 1 and both
\*   RevDual: scrape returns project and regionList, either may be nil
ScrapeAfterRegions(p, rg, e) ==
    IF rev = RevUp
    THEN IF e # NoErr
         THEN [g |-> AfterScrape(Nil, Nil), prj |-> Nil, rgl |-> Nil, up |-> 0]
         ELSE [g |-> AfterScrape(p, rg), prj |-> p, rgl |-> rg, up |-> 1]
    ELSE LET r == IF e # NoErr THEN Nil ELSE rg
         IN [g |-> AfterScrape(p, r), prj |-> p, rgl |-> r, up |-> 0]

\* scrape: if err != nil { ... } after the project call
ProjectErr(t) ==
    /\ Running
    /\ pc[t] = "projectErr"
    /\ LET r == ScrapeAfterProject(prj[t], err[t])
       IN Advance(t, r.g, r.prj, r.rgl, r.up)
    /\ UNCHANGED <<config, ch, answered, counters>>

\* scrape: if err != nil { ... } after the region call, scrape's return and
\* Collect up to its first send
RegionsErr(t) ==
    /\ Running
    /\ pc[t] = "regionsErr"
    /\ LET r == ScrapeAfterRegions(prj[t], rgl[t], err[t])
       IN Advance(t, r.g, r.prj, r.rgl, r.up)
    /\ UNCHANGED <<config, ch, answered, counters>>

(* ------------------------ Collect: the sends --------------------------- *)
\* ch <- m, then Collect goes on at g
Send(t, m, g) ==
    /\ ch' = [ch EXCEPT ![t] = Append(@, m)]
    /\ Advance(t, g, prj[t], rgl[t], up[t])
    /\ UNCHANGED <<config, answered, counters>>

ProjectQuota(t) == Deref(prj[t]).Quotas[qi[t]]
RegionOf(t) == Deref(rgl[t]).Items[ri[t]]
RegionQuota(t) == RegionOf(t).Quotas[qi[t]]

\* ch <- MustNewConstMetric(limitDesc, GaugeValue, quota.Limit, e.project, "", quota.Metric)
ProjectLimit(t) ==
    /\ Running
    /\ pc[t] = "projectLimit"
    /\ Send(t, MustNewConstMetric(limitDesc, ProjectQuota(t).Limit,
                                  <<project, "", ProjectQuota(t).Metric>>),
            Goto("projectUsage", qi[t], 0))

\* ch <- MustNewConstMetric(usageDesc, GaugeValue, quota.Usage, e.project, "", quota.Metric)
\* and the loop's next turn
ProjectUsage(t) ==
    /\ Running
    /\ pc[t] = "projectUsage"
    /\ Send(t, MustNewConstMetric(usageDesc, ProjectQuota(t).Usage,
                                  <<project, "", ProjectQuota(t).Metric>>),
            IF qi[t] < Len(Deref(prj[t]).Quotas)
            THEN Goto("projectLimit", qi[t] + 1, 0)
            ELSE AfterProjectQuotas(rgl[t]))

\* ch <- MustNewConstMetric(projectQuotaUpDesc, GaugeValue, 1) or 0 (RevDual)
ProjectUp(t) ==
    /\ Running
    /\ pc[t] = "projectUp"
    /\ Send(t, MustNewConstMetric(projectQuotaUpDesc, IF prj[t] # Nil THEN 1 ELSE 0, <<>>),
            AfterProjectUp(rgl[t]))

\* ch <- MustNewConstMetric(limitDesc, GaugeValue, quota.Limit, e.project, regionName, quota.Metric)
RegionLimit(t) ==
    /\ Running
    /\ pc[t] = "regionLimit"
    /\ Send(t, MustNewConstMetric(limitDesc, RegionQuota(t).Limit,
                                  <<project, RegionOf(t).Name, RegionQuota(t).Metric>>),
            Goto("regionUsage", qi[t], ri[t]))

\* ch <- MustNewConstMetric(usageDesc, GaugeValue, quota.Usage, e.project, regionName, quota.Metric)
\* and the loops' next turn
RegionUsage(t) ==
    /\ Running
    /\ pc[t] = "regionUsage"
    /\ Send(t, MustNewConstMetric(usageDesc, RegionQuota(t).Usage,
                                  <<project, RegionOf(t).Name, RegionQuota(t).Metric>>),
            IF qi[t] < Len(RegionOf(t).Quotas)
            THEN Goto("regionLimit", qi[t] + 1, ri[t])
            ELSE RangeRegions(rgl[t], ri[t] + 1))

\* ch <- MustNewConstMetric(regionsQuotaUpDesc, GaugeValue, 1) or 0 (RevDual),
\* Collect returns
RegionsUp(t) ==
    /\ Running
    /\ pc[t] = "regionsUp"
    /\ Send(t, MustNewConstMetric(regionsQuotaUpDesc, IF rgl[t] # Nil THEN 1 ELSE 0, <<>>),
            Goto("return", 0, 0))

\* ch <- MustNewConstMetric(upDesc, GaugeValue, up) (RevUp), Collect returns
Up(t) ==
    /\ Running
    /\ pc[t] = "up"
    /\ Send(t, MustNewConstMetric(upDesc, up[t], <<>>), Goto("return", 0, 0))

(* ------------------- RevBackoff: the retry loops ----------------------- *)
\* ticks of time.Sleep(time.Duration(2^n) + millis), millis below a second
SleepTicks == {0, 1}

\* Go's 2^k: the bitwise exclusive or of 2 and k, which flips k's bit of
\* weight 2 (2, 3, 0, 1, 6, 7, ...); time.Duration(2^n) is that many
\* nanoseconds
Xor2(k) == IF (k \div 2) % 2 = 0 THEN k + 2 ELSE k - 2

\* one turn of for n := 0; n <= e.backoffLimit-1; n++ { ...Do(); if err == nil
\* { break } else { log; sleep } }: nothing limits the time it takes
LoopTurn(t, isProject) ==
    IF n[t] <= backoffLimit - 1
    THEN \E o \in Outcomes, d \in AttemptTicks, sleep \in SleepTicks :
           /\ elapsed' = [elapsed EXCEPT ![t] = @ + d + (IF IsError(o) THEN sleep ELSE 0)]
           /\ IsError(o) \/ sleep = 0
           /\ prj' = [prj EXCEPT ![t] = IF isProject THEN ProjectResult(o) ELSE @]
           /\ rgl' = [rgl EXCEPT ![t] = IF isProject THEN @ ELSE RegionsResult(o)]
           /\ err' = [err EXCEPT ![t] = IF IsError(o) THEN o ELSE NoErr]
           /\ n' = [n EXCEPT ![t] = IF IsError(o) THEN @ + 1 ELSE @]
           /\ sent' = [sent EXCEPT ![t] = Append(@, o)]
           /\ slept' = [slept EXCEPT ![t] =
                  IF IsError(o) THEN Append(@, Sleep(Xor2(n[t]), sleep)) ELSE @]
           /\ pc' = [pc EXCEPT ![t] =
                  IF IsError(o) THEN @
                  ELSE IF isProject THEN "projectFatal" ELSE "regionFatal"]
           /\ answered' = [answered EXCEPT ![t] =
                  IF isProject THEN [@ EXCEPT !.project = Seen(o)]
                  ELSE [@ EXCEPT !.regions = Seen(o)]]
           /\ projectCalls' = IF isProject THEN projectCalls + 1 ELSE projectCalls
           /\ regionCalls' = IF isProject THEN regionCalls ELSE regionCalls + 1
           /\ failures' = (failures \/ o # 200)
    ELSE /\ pc' = [pc EXCEPT ![t] = IF isProject THEN "projectFatal" ELSE "regionFatal"]
         /\ UNCHANGED <<prj, rgl, err, n, elapsed, sent, slept, answered, projectCalls,
                        regionCalls, failures>>

\* getProjectQuotas: the loop around e.service.Projects.Get(e.project).Do()
ProjectLoop(t) ==
    /\ Running
    /\ rev = RevBackoff
    /\ pc[t] = "projectLoop"
    /\ LoopTurn(t, TRUE)
    /\ UNCHANGED <<config, mutex, process, up, attempt, qi, ri, ch, collects>>

\* getRegionQuotas: the loop around e.service.Regions.List(e.project).Do()
RegionLoop(t) ==
    /\ Running
    /\ rev = RevBackoff
    /\ pc[t] = "regionLoop"
    /\ LoopTurn(t, FALSE)
    /\ UNCHANGED <<config, mutex, process, up, attempt, qi, ri, ch, collects>>

\* getProjectQuotas: if err != nil { log.Fatal() }, then the range over
\* project.Quotas
ProjectFatal(t) ==
    /\ Running
    /\ pc[t] = "projectFatal"
    /\ Advance(t, IF err[t] # NoErr THEN Goto("fatal", 0, 0)
                  ELSE RangeProjectQuotas(prj[t], Nil),
               prj[t], Nil, 0)
    /\ UNCHANGED <<config, ch, answered, counters>>

\* getRegionQuotas: if err != nil { log.Fatal() }, then the range over
\* regionList.Items
RegionFatal(t) ==
    /\ Running
    /\ pc[t] = "regionFatal"
    /\ Advance(t, IF err[t] # NoErr THEN Goto("fatal", 0, 0)
                  ELSE RangeRegions(rgl[t], 1),
               Nil, rgl[t], 0)
    /\ UNCHANGED <<config, ch, answered, counters>>

(* -------------------------------- main --------------------------------- *)
\* log.Fatal, log.Fatalf and os.Exit(1) in main and NewExporter
Exit(cause) ==
    /\ process' = "exited"
    /\ exitCause' = cause
    /\ mainpc' = "exit"

\* a detection that asks the metadata server before it looks for a
\* credentials file
DetectMetadataFirst ==
    IF gcpProjectID # "" THEN "checkEmpty"
    ELSE IF env.metadataProjectID # "" \/ env.credentialsFile = "" THEN "metadata"
    ELSE "readFile"

\* a detection that goes on to the metadata server when the credentials
\* file names no project
ReadFileFallsThrough ==
    IF ~env.readable THEN "exit" ELSE IF env.fileProjectID = "" THEN "metadata" ELSE "checkEmpty"

\* "Detect Project ID": where main goes with *gcpProjectID and
\* $GOOGLE_APPLICATION_CREDENTIALS as they are
Detect ==
    IF gcpProjectID # "" THEN "checkEmpty"
    ELSE IF env.credentialsFile # "" THEN "readFile"
    ELSE "metadata"

\* where main goes once it has tried to read the credentials file: it
\* exits when the file cannot be read or names no project_id
AfterReadFile ==
    IF ~env.readable \/ env.fileProjectID = "" THEN "exit" ELSE "checkEmpty"

\* main after kingpin.Parse(): RevUp and RevDual detect the project ID,
\* RevBackoff takes its required argument as it is
MainStart ==
    /\ Running
    /\ UNCHANGED <<flags, serving>>
    /\ mainpc = "start"
    /\ mainpc' = IF rev = RevBackoff THEN "newExporter" ELSE Detect
    /\ UNCHANGED <<gcpProjectID, consulted, exitCause, project, process, describing, described>>

\* c, err := ioutil.ReadFile(credentialsFile);
\* projectId := gjson.GetBytes(c, "project_id")
MainReadFile ==
    /\ Running
    /\ UNCHANGED <<flags, serving>>
    /\ mainpc = "readFile"
    /\ consulted' = consulted \cup {"credentials"}
    /\ IF AfterReadFile = "exit"
       THEN /\ Exit(IF ~env.readable THEN "unreadable credentials"
                    ELSE "no project_id in credentials")
            /\ UNCHANGED gcpProjectID
       ELSE /\ gcpProjectID' = env.fileProjectID
            /\ mainpc' = AfterReadFile
            /\ UNCHANGED <<process, exitCause>>
    /\ UNCHANGED <<project, describing, described>>

\* project_id, err := GetProjectIdFromMetadata()
MainMetadata ==
    /\ Running
    /\ UNCHANGED <<flags, serving>>
    /\ mainpc = "metadata"
    /\ consulted' = consulted \cup {"metadata"}
    /\ IF env.metadataErr
       THEN Exit("metadata") /\ UNCHANGED gcpProjectID
       ELSE /\ gcpProjectID' = env.metadataProjectID
            /\ mainpc' = "checkEmpty"
            /\ UNCHANGED <<process, exitCause>>
    /\ UNCHANGED <<project, describing, described>>

\* if *gcpProjectID == "" { "GCP Project ID cannot be empty"; exit }
MainCheckEmpty ==
    /\ Running
    /\ UNCHANGED <<flags, serving>>
    /\ mainpc = "checkEmpty"
    /\ IF gcpProjectID = ""
       THEN Exit("empty project ID")
       ELSE mainpc' = "newExporter" /\ UNCHANGED <<process, exitCause>>
    /\ UNCHANGED <<gcpProjectID, consulted, project, describing, described>>

\* a NewExporter whose failures go unnoticed
NewExporterNeverFails == ""

\* what makes NewExporter fail, "" when nothing does
\*   RevBackoff reads the credentials file itself (log.Fatalf when it cannot)
\*   RevUp, RevDual: google.DefaultClient may fail (returned, main exits)
\*   all: compute.NewService may fail (log.Fatalf / os.Exit(1))
NewExporterErr ==
    IF rev = RevBackoff /\ ~env.readable THEN "unreadable credentials"
    ELSE IF rev # RevBackoff /\ env.clientErr THEN "client"
    ELSE IF env.serviceErr THEN "service"
    ELSE ""

\* exporter, err := NewExporter(...); if err != nil { exit }
MainNewExporter ==
    /\ Running
    /\ UNCHANGED <<flags, serving>>
    /\ mainpc = "newExporter"
    /\ IF NewExporterErr # ""
       THEN Exit(NewExporterErr) /\ UNCHANGED project
       ELSE /\ project' = gcpProjectID
            /\ mainpc' = "register"
            /\ UNCHANGED <<process, exitCause>>
    /\ UNCHANGED <<gcpProjectID, consulted, describing, described>>

\* the goroutine DescribeByCollect starts
Describer == 1

\* the descriptors of the metrics in seq, one per metric: m.Desc()
DescsOf(seq) == [i \in DOMAIN seq |-> seq[i].desc]

\* prometheus.MustRegister(exporter) calls exporter.Describe, that is
\* prometheus.DescribeByCollect(e, ch): go func() { c.Collect(metrics);
\* close(metrics) }()
MainRegister ==
    /\ Running
    /\ mainpc = "register"
    /\ pc[Describer] = "idle"
    /\ mainpc' = "describe"
    /\ describing' = Describer
    /\ Enter(Describer)
    /\ UNCHANGED <<flags, gcpProjectID, consulted, exitCause, project, described, process>>

\* DescribeByCollect: for m := range metrics { descs <- m.Desc() } ends
\* when Collect has returned and the channel is closed; the registry keeps
\* the descriptors and MustRegister returns
DescribeByCollect ==
    /\ Running
    /\ mainpc = "describe"
    /\ pc[describing] = "done"
    /\ described' = DescsOf(ch[describing])
    /\ describing' = 0
    /\ mainpc' = "listen"
    /\ UNCHANGED <<flags, serving, gcpProjectID, consulted, exitCause, project, process>>

\* http.ListenAndServe(*listenAddress, nil)
MainListen ==
    /\ Running
    /\ UNCHANGED <<flags, serving>>
    /\ mainpc = "listen"
    /\ mainpc' = "serving"
    /\ UNCHANGED <<gcpProjectID, consulted, exitCause, project, process, describing, described>>

(* --------------------------- the specification ------------------------- *)
Fixtures ==
    { [project |-> <<>>, regions |-> <<>>],
      [project |-> <<CPUS>>, regions |-> <<Region("us-central1", <<DISKS>>)>>],
      [project |-> <<CPUS, DISKS>>,
       regions |-> <<Region("us-central1", <<CPUS, DISKS>>), Region("europe-west1", <<>>)>>],
      [project |-> <<NoName>>,
       regions |-> <<Region("us-central1", <<>>), Region("europe-west1", <<NoName>>)>>] }

\* the exporter before its first Collect
Idle ==
    /\ mutex = Free
    /\ process = "running"
    /\ pc = [t \in Collectors |-> "idle"]
    /\ prj = [t \in Collectors |-> Nil]
    /\ rgl = [t \in Collectors |-> Nil]
    /\ up = [t \in Collectors |-> 0]
    /\ err = [t \in Collectors |-> NoErr]
    /\ n = [t \in Collectors |-> 0]
    /\ attempt = [t \in Collectors |-> 0]
    /\ elapsed = [t \in Collectors |-> 0]
    /\ sent = [t \in Collectors |-> <<>>]
    /\ slept = [t \in Collectors |-> <<>>]
    /\ qi = [t \in Collectors |-> 0]
    /\ ri = [t \in Collectors |-> 0]
    /\ ch = [t \in Collectors |-> <<>>]
    /\ answered = [t \in Collectors |-> [project |-> "none", regions |-> "none"]]
    /\ collects = 0
    /\ projectCalls = 0
    /\ regionCalls = 0
    /\ failures = FALSE

Init ==
    /\ rev \in Revisions
    /\ gcpMaxRetries \in (IF rev = RevBackoff THEN {0} ELSE 0 .. MaxRetries)
    /\ backoffLimit \in (IF rev = RevBackoff THEN 0 .. MaxRetries ELSE {0})
    /\ gcpHttpTimeout \in {3}
    /\ gcpMaxBackoffDuration \in {2}
    /\ gcpBackoffJitterBase \in {1}
    /\ upstream \in Fixtures
    /\ env = [projectID |-> "flag-project", credentialsFile |-> "", readable |-> TRUE,
              fileProjectID |-> "", metadataErr |-> FALSE, metadataProjectID |-> "",
              clientErr |-> FALSE, serviceErr |-> FALSE]
    /\ mainpc = "register"
    /\ gcpProjectID = env.projectID
    /\ consulted = {}
    /\ exitCause = ""
    /\ project = gcpProjectID
    /\ describing = 0
    /\ described = <<>>
    /\ Idle


\* one step of goroutine t in its scrape-and-emit cycle
Cycle(t) ==
        \/ Lock(t)
        \/ ProjectsGet(t)
        \/ RegionsList(t)
        \/ RoundTrip(t)
        \/ ProjectErr(t)
        \/ RegionsErr(t)
        \/ ProjectLimit(t)
        \/ ProjectUsage(t)
        \/ ProjectUp(t)
        \/ RegionLimit(t)
        \/ RegionUsage(t)
        \/ RegionsUp(t)
        \/ Up(t)
        \/ ProjectLoop(t)
        \/ RegionLoop(t)
        \/ ProjectFatal(t)
        \/ RegionFatal(t)

Next ==
    \/ MainRegister
    \/ DescribeByCollect
    \/ MainListen
    \/ \E t \in Collectors : Collect(t) \/ Cycle(t)

Spec == Init /\ [][Next]_vars

\* the scheduling the Go runtime gives: a goroutine that can go on does
\* (the upstream returns every request, rehttp and time.Sleep wake up), main
\* goes on, and sync.RWMutex.Lock is starvation-free: a goroutine waiting
\* for a mutex that is free again and again gets it. The pull server is
\* free to call Collect or not.
Fairness ==
    /\ WF_vars(MainRegister \/ DescribeByCollect \/ MainListen)
    /\ \A t \in Collectors :
          /\ SF_vars(Lock(t))
          /\ WF_vars(pc[t] # "lock" /\ Cycle(t))

SpecLive == Init /\ [][Next]_vars /\ Fairness

\* main from its start, whatever it finds
Environments ==
    [projectID : {"", "flag-project"},
     credentialsFile : {"", "credentials.json"},
     readable : BOOLEAN,
     fileProjectID : {"", "file-project"},
     metadataErr : BOOLEAN,
     metadataProjectID : {"", "metadata-project"},
     clientErr : BOOLEAN,
     serviceErr : BOOLEAN]

InitMain ==
    /\ rev \in Revisions
    /\ gcpMaxRetries = 0
    /\ backoffLimit = IF rev = RevBackoff THEN 1 ELSE 0
    /\ gcpHttpTimeout \in {3}
    /\ gcpMaxBackoffDuration \in {2}
    /\ gcpBackoffJitterBase \in {1}
    /\ upstream = [project |-> <<CPUS>>, regions |-> <<Region("us-central1", <<DISKS>>)>>]
    /\ env \in Environments
    /\ mainpc = "start"
    /\ gcpProjectID = env.projectID
    /\ consulted = {}
    /\ exitCause = ""
    /\ project = ""
    /\ describing = 0
    /\ described = <<>>
    /\ Idle

NextMain ==
    \/ MainStart
    \/ MainReadFile
    \/ MainMetadata
    \/ MainCheckEmpty
    \/ MainNewExporter
    \/ MainRegister
    \/ DescribeByCollect
    \/ MainListen
    \/ \E t \in Collectors : Cycle(t)

SpecMain == InitMain /\ [][NextMain]_vars

(* ============================== the claims ============================= *)
\* goroutine t is inside a scrape-and-emit cycle: past e.mutex.Lock() and
\* not yet returned
InCycle(t) == pc[t] \notin {"idle", "lock", "done", "panic", "fatal"}

\* the cycle of goroutine t has ended, by a return or with the process
Ended(t) == pc[t] \in {"done", "panic", "fatal"}

Count(seq, m) == Cardinality({i \in DOMAIN seq : seq[i] = m})
Range(seq) == {seq[i] : i \in DOMAIN seq}
Descs(seq, d) == {i \in DOMAIN seq : seq[i].desc = d}

\* C1: at most one scrape-and-emit cycle is in progress at any time: the
\* goroutine inside a cycle holds the mutex, and while it is between its
\* Lock and its return no other goroutine is inside a cycle, so none makes
\* an upstream call or sends a metric
TheoremC1 ==
    \A t1 \in Collectors :
        InCycle(t1) =>
            /\ mutex = t1
            /\ \A t2 \in Collectors : InCycle(t2) => t2 = t1

\* a cycle is sending its metrics while another Collect waits for the mutex
WitnessC1 ==
    \E t1, t2 \in Collectors :
        /\ pc[t1] = "regionUsage"
        /\ Len(ch[t1]) > 2
        /\ pc[t2] = "lock"

\* C2: in every cycle both upstream calls are made whatever the other's
\* outcome: a cycle that has ended has made its project call and its
\* region call
ClaimC2 ==
    \A t \in Collectors :
        Ended(t) => /\ answered[t].project # "none"
                    /\ answered[t].regions # "none"

\* C3: no outcome of the two upstream calls ends the process: Collect
\* returns normally and the process keeps running
ClaimC3 ==
    /\ process = "running"
    /\ \A t \in Collectors : pc[t] \notin {"panic", "fatal"}

\* scrape() of goroutine t has returned (RevUp, RevDual)
Scraped(t) ==
    /\ rev # RevBackoff
    /\ pc[t] \in {"projectLimit", "projectUsage", "projectUp", "regionLimit",
                  "regionUsage", "regionsUp", "up", "panic"}

\* C4: scrape() reports each source present exactly when that source's own
\* call succeeded, with the upstream's data, for every combination of
\* outcomes of the two calls
ClaimC4 ==
    \A t \in Collectors :
        Scraped(t) =>
            /\ answered[t].project # "none" /\ answered[t].regions # "none"
            /\ prj[t] = (IF answered[t].project = "ok"
                         THEN Ptr([Quotas |-> upstream.project]) ELSE Nil)
            /\ rgl[t] = (IF answered[t].regions = "ok"
                         THEN Ptr([Items |-> upstream.regions]) ELSE Nil)

\* C5: every completed cycle has sent exactly one project-health and one
\* region-health metric, each 1 iff its own call succeeded, else 0
ClaimC5 ==
    \A t \in Collectors :
        pc[t] = "done" =>
            /\ \E i \in DOMAIN ch[t] :
                 /\ Descs(ch[t], projectQuotaUpDesc) = {i}
                 /\ ch[t][i].value = (IF answered[t].project = "ok" THEN 1 ELSE 0)
            /\ \E i \in DOMAIN ch[t] :
                 /\ Descs(ch[t], regionsQuotaUpDesc) = {i}
                 /\ ch[t][i].value = (IF answered[t].regions = "ok" THEN 1 ELSE 0)

\* the metrics of one quota entry under region label r
Pair(r, q) ==
    << MustNewConstMetric(limitDesc, q.Limit, <<project, r, q.Metric>>),
       MustNewConstMetric(usageDesc, q.Usage, <<project, r, q.Metric>>) >>

RECURSIVE FlattenQuotas(_, _)
FlattenQuotas(r, qs) ==
    IF qs = <<>> THEN <<>> ELSE Pair(r, Head(qs)) \o FlattenQuotas(r, Tail(qs))

RECURSIVE FlattenRegions(_)
FlattenRegions(items) ==
    IF items = <<>> THEN <<>>
    ELSE FlattenQuotas(Head(items).Name, Head(items).Quotas) \o FlattenRegions(Tail(items))

\* the upstream's response, flattened
Flattened == FlattenQuotas("", upstream.project) \o FlattenRegions(upstream.regions)

SameBag(s1, s2) ==
    /\ Len(s1) = Len(s2)
    /\ \A m \in Range(s1) \cup Range(s2) : Count(s1, m) = Count(s2, m)

\* C6: when both calls succeed the cycle sends exactly the flattened
\* upstream response, nothing dropped, nothing twice, and both health
\* metrics with value 1
ClaimC6 ==
    \A t \in Collectors :
        (pc[t] = "done" /\ answered[t].project = "ok" /\ answered[t].regions = "ok") =>
            SameBag(ch[t],
                    Flattened \o << MustNewConstMetric(projectQuotaUpDesc, 1, <<>>),
                                    MustNewConstMetric(regionsQuotaUpDesc, 1, <<>>) >>)

(* ----------------------------- retries --------------------------------- *)
\* one upstream call: Do() with the retries of the rehttp transport (RevUp,
\* RevDual), or the retry loop around Do() (RevBackoff)
\* the step of goroutine t in which its call ends
CallEnds(t) ==
    IF rev = RevBackoff
    THEN pc[t] \in {"projectLoop", "regionLoop"} /\ pc'[t] \in {"projectFatal", "regionFatal"}
    ELSE pc[t] \in {"projectsDo", "regionsDo"} /\ pc'[t] \in {"projectErr", "regionsErr"}

\* what the upstream answered to the attempts of the call that ends
Script(t) ==
    IF rev = RevBackoff THEN sent'[t]
    ELSE Append(sent[t], IF err'[t] = NoErr THEN 200 ELSE err'[t])

\* the call that ends has succeeded
Succeeds(t) == err'[t] = NoErr /\ (prj'[t] # Nil \/ rgl'[t] # Nil)

\* the retries the flags allow: --gcp.max-retries, --backoff-limit ("How
\* many times the app will retry API connections")
RetriesAllowed == IF rev = RevBackoff THEN backoffLimit ELSE gcpMaxRetries

\* the first k answers of s are 503 and the next one is 200
FlakyThenOK(s, k) ==
    /\ Len(s) > k
    /\ \A i \in 1 .. k : s[i] = 503
    /\ s[k + 1] = 200

\* C7: against an upstream that answers 503 to the first k attempts and
\* 200 then, k below the retries allowed, the call succeeds after exactly
\* k+1 attempts; against one that answers 503 to every attempt it fails
\* after exactly the retries allowed plus one attempts (calls cut short by
\* the client timeout are not of either kind)
ClaimC7 ==
    [][\A t \in Collectors :
          CallEnds(t) =>
              /\ \A k \in 0 .. (RetriesAllowed - 1) :
                     FlakyThenOK(Script(t), k) =>
                         Len(Script(t)) = k + 1 /\ Succeeds(t)
              /\ (Script(t) # <<>> /\ \A i \in DOMAIN Script(t) : Script(t)[i] = 503) =>
                     Len(Script(t)) = RetriesAllowed + 1 /\ ~Succeeds(t)]_vars

\* C8: an attempt is followed by another one only if it was answered with
\* a status of gcpRetryStatuses and fewer attempts than the retries allowed
\* were made before it; a call makes at least one attempt, so exactly one
\* when no retries are allowed
ClaimC8 ==
    [][\A t \in Collectors :
          CallEnds(t) =>
              /\ Len(Script(t)) >= 1
              /\ Len(Script(t)) <= RetriesAllowed + 1
              /\ \A i \in 1 .. (Len(Script(t)) - 1) : Script(t)[i] \in gcpRetryStatuses]_vars

\* the rehttp transport of RevUp and RevDual keeps to C7 and C8
RehttpKeepsC7 ==
    [][rev # RevBackoff =>
       \A t \in Collectors :
          CallEnds(t) =>
              /\ \A k \in 0 .. (RetriesAllowed - 1) :
                     FlakyThenOK(Script(t), k) =>
                         Len(Script(t)) = k + 1 /\ Succeeds(t)
              /\ (\A i \in DOMAIN Script(t) : Script(t)[i] = 503) =>
                     Len(Script(t)) = RetriesAllowed + 1 /\ ~Succeeds(t)]_vars

RehttpKeepsC8 ==
    [][rev # RevBackoff =>
       \A t \in Collectors :
          CallEnds(t) =>
              /\ Len(Script(t)) >= 1
              /\ Len(Script(t)) <= RetriesAllowed + 1
              /\ \A i \in 1 .. (Len(Script(t)) - 1) : Script(t)[i] \in gcpRetryStatuses]_vars

(* --------------------------- identity ---------------------------------- *)
\* main has settled the project ID (RevUp, RevDual)
Resolved ==
    /\ rev # RevBackoff
    /\ mainpc \in {"newExporter", "register", "describe", "listen", "serving"}

\* main is through with detecting the project ID, one way or the other
Detected == rev # RevBackoff /\ mainpc \notin {"start", "readFile", "metadata"}

\* what each source supplies
Explicit == env.projectID
FromCredentials ==
    IF env.credentialsFile # "" /\ env.readable THEN env.fileProjectID ELSE ""
FromMetadata == IF env.metadataErr THEN "" ELSE env.metadataProjectID

\* C9: precedence of the sources: a non-empty explicit value is the
\* resolved identity; else the credentials file's value is, when it has
\* one; the metadata server's value is used only when neither supplies one
TheoremC9 ==
    Resolved =>
        /\ gcpProjectID # ""
        /\ Explicit # "" => gcpProjectID = Explicit
        /\ (Explicit = "" /\ FromCredentials # "") => gcpProjectID = FromCredentials
        /\ ("metadata" \in consulted \/ gcpProjectID = env.metadataProjectID) =>
               /\ Explicit = "" /\ FromCredentials = ""
               /\ gcpProjectID = FromMetadata

\* the exporter serves the credentials file's project although the metadata
\* server has one too
WitnessC9 ==
    /\ Resolved
    /\ mainpc = "serving"
    /\ Explicit = ""
    /\ project = "file-project"
    /\ FromMetadata = "metadata-project"

\* C10: the empty-identity error is raised only when all three sources
\* yield nothing, and whenever an earlier source yields nothing the next
\* one is tried: a credentials file without a project_id still leads to
\* the metadata server being asked
ClaimC10 ==
    Detected =>
        /\ exitCause = "empty project ID" =>
               Explicit = "" /\ FromCredentials = "" /\ FromMetadata = ""
        /\ (Explicit = "" /\ env.credentialsFile # "" /\ env.readable
              /\ env.fileProjectID = "") => "metadata" \in consulted

\* C10 as the code has it: the empty-identity error is raised only when all
\* three sources yield nothing; the metadata server is asked exactly when
\* the explicit value is empty and no credentials file is configured; a
\* configured credentials file without a project_id ends main with its
\* own error, the metadata server not asked
TheoremC10 ==
    Detected =>
        /\ exitCause = "empty project ID" =>
               Explicit = "" /\ FromCredentials = "" /\ FromMetadata = ""
        /\ "metadata" \in consulted <=> (Explicit = "" /\ env.credentialsFile = "")
        /\ (Explicit = "" /\ env.credentialsFile # "" /\ env.readable
              /\ env.fileProjectID = "") =>
               /\ exitCause = "no project_id in credentials"
               /\ "metadata" \notin consulted

\* main has ended on a credentials file that names no project, while the
\* metadata server would have named one
WitnessC10 ==
    /\ Detected
    /\ exitCause = "no project_id in credentials"
    /\ FromMetadata = "metadata-project"

(* ----------------------------- start-up -------------------------------- *)
\* main has constructed the Exporter: it is about to register it, has
\* registered it, or serves
Constructed == mainpc \in {"register", "describe", "listen", "serving"}

\* C11: whenever the Exporter is constructed, registered or serving, its
\* project is a non-empty string
ClaimC11 == Constructed => project # ""

\* the revisions that detect the project ID keep to C11
DetectingKeepsC11 == (rev # RevBackoff /\ Constructed) => project # ""

\* the start-up failures main cannot recover from, as the environment has them
UnreadableCredentials ==
    /\ ~env.readable
    /\ IF rev = RevBackoff THEN TRUE
       ELSE env.projectID = "" /\ env.credentialsFile # ""
EmptyIdentity == rev # RevBackoff /\ mainpc = "checkEmpty" /\ gcpProjectID = ""
CannotConstruct == (rev # RevBackoff /\ env.clientErr) \/ env.serviceErr

\* C12: every unrecoverable start-up failure (credentials file unreadable,
\* empty resolved identity, client or service not constructed) ends the
\* process before the collector is registered and before the listener is
\* started: main never gets to register with such a failure behind it, the
\* step after an empty identity is found is the exit, and a process that
\* main has ended stays ended with its cause recorded
TheoremC12 ==
    [][/\ Constructed' => /\ ~UnreadableCredentials /\ ~CannotConstruct
                          /\ rev # RevBackoff => project' # ""
       /\ (EmptyIdentity /\ mainpc' # mainpc) => mainpc' = "exit"
       /\ mainpc' = "exit" => /\ process' = "exited"
                              /\ exitCause' # ""
                              /\ ~Constructed]_vars

\* main has ended because compute.NewService failed, the identity resolved
\* from a readable credentials file
WitnessC12 ==
    /\ mainpc = "exit"
    /\ exitCause = "service"
    /\ gcpProjectID = "file-project"
    /\ project = ""

(* ----------------------------- Describe -------------------------------- *)
\* the descriptors the exporter has metrics for
AllDescs == {limitDesc, usageDesc, projectQuotaUpDesc, regionsQuotaUpDesc}

\* MustRegister has returned: the registry holds what Describe sent
Registered == mainpc \in {"listen", "serving"}

\* C13: Describe sends the fixed set of descriptors (limit, usage,
\* project-health, regions-health) whatever the upstream calls of its
\* scrape end in and however many quotas the upstream holds, and every
\* metric a Collect sends has one of the descriptors Describe sent
ClaimC13 ==
    /\ Registered => Range(described) = AllDescs
    /\ \A t \in Collectors :
           (Registered /\ pc[t] = "done") =>
               Range(DescsOf(ch[t])) \subseteq Range(described)

(* --------------------------- concurrency ------------------------------- *)
\* the Collect invocations that have got as far as pcs
Past(pcs) == collects - Cardinality({t \in Collectors : pc[t] \in pcs})

\* C14: while the upstream has answered every request with a 200 in time
\* (RevUp, RevDual), every Collect invocation makes a project call and a
\* region call of its own: no cycle has ended abnormally, every invocation
\* not yet through can take a step, and the calls made are exactly one
\* project call per invocation past ProjectsGet and one region call per
\* invocation past RegionsList, so N invocations that have returned have
\* made N project calls and N region calls
TheoremC14 ==
    (rev # RevBackoff /\ ~failures) =>
        /\ process = "running"
        /\ \A t \in Collectors : pc[t] \notin {"panic", "fatal"}
        /\ (\E t \in Collectors : pc[t] \notin {"idle", "done"}) =>
               ENABLED (\E u \in Collectors : Cycle(u))
        /\ projectCalls = Past({"lock", "projectsGet"})
        /\ regionCalls = Past({"lock", "projectsGet", "projectsDo", "projectErr",
                               "regionsList"})
        /\ (\A t \in Collectors : pc[t] \in {"idle", "done"}) =>
               projectCalls = collects /\ regionCalls = collects

\* two Collects of the pull server at the same time, one waiting for the
\* mutex while the other's region call is in progress, after Describe's
\* Collect: three invocations, and the upstream has never failed
WitnessC14 ==
    /\ rev # RevBackoff
    /\ ~failures
    /\ collects = 3
    /\ \E t1, t2 \in Collectors : pc[t1] = "regionsDo" /\ pc[t2] = "lock"
    /\ projectCalls = 2
    /\ regionCalls = 2

(* ------------------------------ the lock ------------------------------- *)
\* the mutex is held by nobody, or by a goroutine inside its cycle; a
\* goroutine whose Collect has ended does not hold it
Released ==
    /\ \A t \in Collectors : Ended(t) => mutex # t
    /\ mutex # Free => InCycle(mutex)

\* C15: the mutex is released on every exit path of Collect, error and
\* abnormal exit included: a goroutine whose Collect has ended, by a
\* return, a panic or log.Fatal, does not hold the mutex, and the mutex is
\* never held with no goroutine inside a cycle
ClaimC15 == Released

\* the deferred Unlock of RevUp and RevDual keeps to C15
DeferKeepsC15 == rev # RevBackoff => Released

(* -------------------------- one cycle's metrics ------------------------ *)
IsQuotaRecord(m) == m.desc \in {limitDesc, usageDesc}
\* the region label of a quota record is its second label
AccountScoped(m) == IsQuotaRecord(m) /\ m.labels[2] = ""
RegionScoped(m) == IsQuotaRecord(m) /\ m.labels[2] # ""
\* the metrics sent so far hold health metric d (or RevUp's "up") with value 0
HealthZero(ms, d) == \E m \in ms : m.desc \in {d, upDesc} /\ m.value = 0

\* C16: in the metrics of one cycle, a project health of 0 goes with no
\* account-scoped quota record and a regions health of 0 with no
\* region-scoped one, and every quota record is an entry of the response
\* to a call that succeeded in this very cycle
TheoremC16 ==
    \A t \in Collectors :
        LET ms == Range(ch[t])
        IN /\ HealthZero(ms, projectQuotaUpDesc) => ~ \E m \in ms : AccountScoped(m)
           /\ HealthZero(ms, regionsQuotaUpDesc) => ~ \E m \in ms : RegionScoped(m)
           /\ \A m \in ms :
                 AccountScoped(m) => /\ answered[t].project = "ok"
                                     /\ m \in Range(FlattenQuotas("", upstream.project))
           /\ \A m \in ms :
                 RegionScoped(m) => /\ answered[t].regions = "ok"
                                    /\ m \in Range(FlattenRegions(upstream.regions))

\* a cycle after the first has returned with the project call failed and
\* the region call well: project health 0 next to region-scoped records
WitnessC16 ==
    \E t \in Collectors :
        /\ pc[t] = "done"
        /\ collects >= 2
        /\ answered[t] = [project |-> "failed", regions |-> "ok"]
        /\ HealthZero(Range(ch[t]), projectQuotaUpDesc)
        /\ \E m \in Range(ch[t]) : RegionScoped(m)

(* ------------------------ statelessness -------------------------------- *)
\* what a cycle that returns sends, given only the upstream's data and how
\* its own two calls ended
ExpectedProject(a) ==
    IF a.project = "ok"
    THEN FlattenQuotas("", upstream.project)
         \o << MustNewConstMetric(projectQuotaUpDesc, 1, <<>>) >>
    ELSE << MustNewConstMetric(projectQuotaUpDesc, 0, <<>>) >>
ExpectedRegions(a) ==
    IF a.regions = "ok"
    THEN FlattenRegions(upstream.regions)
         \o << MustNewConstMetric(regionsQuotaUpDesc, 1, <<>>) >>
    ELSE << MustNewConstMetric(regionsQuotaUpDesc, 0, <<>>) >>
Expected(a) ==
    CASE rev = RevDual -> ExpectedProject(a) \o ExpectedRegions(a)
      [] rev = RevUp -> Flattened \o << MustNewConstMetric(upDesc, 1, <<>>) >>
      [] OTHER -> Flattened

\* C17: the result of a cycle is a function of the upstream's data and of
\* how the cycle's own two calls ended, in content and in order: two
\* cycles on the same upstream whose calls end alike send the same, whatever
\* the cycles before them did
TheoremC17 ==
    \A t \in Collectors :
        pc[t] = "done" =>
            /\ ch[t] = Expected(answered[t])
            /\ prj[t] = Nil /\ rgl[t] = Nil /\ err[t] = NoErr
            /\ n[t] = 0 /\ attempt[t] = 0 /\ sent[t] = <<>>

\* the same goroutine has run two cycles one after the other: Describe's,
\* in which calls failed, and one of the pull server in which both
\* succeeded and the upstream's quotas were sent
WitnessC17 ==
    /\ mainpc = "serving"
    /\ collects = 2
    /\ pc[Describer] = "done"
    /\ \A t \in Collectors : t # Describer => pc[t] = "idle"
    /\ answered[Describer] = [project |-> "ok", regions |-> "ok"]
    /\ Range(DescsOf(ch[Describer])) # Range(described)
    /\ Len(ch[Describer]) > 2

(* ----------------------------- the deadline ---------------------------- *)
\* goroutine t is in an upstream call, about to make an attempt
Calling(t) ==
    \/ pc[t] \in {"projectsDo", "regionsDo"}
    \/ pc[t] \in {"projectLoop", "regionLoop"} /\ n[t] <= backoffLimit - 1
\* the upstream call of goroutine t has just ended
Called(t) == pc[t] \in {"projectErr", "regionsErr", "projectFatal", "regionFatal"}

\* the call of goroutine t keeps to the deadline: it never lasts beyond
\* gcpHttpTimeout, every attempt starts before the deadline, and a call
\* that has reached the deadline has ended in an error, without a result
InTime(t) ==
    /\ elapsed[t] <= gcpHttpTimeout
    /\ Calling(t) => elapsed[t] < gcpHttpTimeout
    /\ (Called(t) /\ elapsed[t] >= gcpHttpTimeout) =>
           /\ err[t] # NoErr
           /\ pc[t] = "projectErr" => prj[t] = Nil
           /\ pc[t] = "regionsErr" => rgl[t] = Nil

\* C18: one upstream call, retries and sleeps included, lasts no longer
\* than the request timeout: no attempt starts at or after the deadline,
\* and a call that reaches the deadline is given up with an error and no
\* result, so that its health is 0
ClaimC18 == \A t \in Collectors : InTime(t)

\* http.Client.Timeout over the rehttp transport (RevUp, RevDual) keeps to C18
RehttpKeepsC18 == rev # RevBackoff => \A t \in Collectors : InTime(t)

\* a call of RevDual has been given up at the deadline in the sleep before
\* its second retry
RehttpDeadlineReached ==
    \E t \in Collectors :
        /\ rev = RevDual
        /\ pc[t] = "regionsErr"
        /\ elapsed[t] = gcpHttpTimeout
        /\ err[t] = Timeout

(* ---------------------------- metric names ----------------------------- *)
\* the metric label of a quota record is its third label
MetricName(m) == m.labels[3]

\* C19: every quota record a Collect sends has a non-empty metric name,
\* whatever the upstream's response, quota entries with an empty metric
\* field included
ClaimC19 ==
    \A t \in Collectors :
        \A m \in Range(ch[t]) : IsQuotaRecord(m) => MetricName(m) # ""

\* the records of quota entries that have a metric name have it
NamedKeepName ==
    \A t \in Collectors :
        \A m \in Range(ch[t]) :
            IsQuotaRecord(m) =>
                \/ MetricName(m) # ""
                \/ \E q \in Range(upstream.project) : q.Metric = ""
                \/ \E i \in DOMAIN upstream.regions :
                       \E q \in Range(upstream.regions[i].Quotas) : q.Metric = ""

(* -------------------------- attempt counters --------------------------- *)
\* the step of goroutine t in which an upstream call begins
CallBegins(t) ==
    /\ pc'[t] # pc[t]
    /\ pc'[t] \in {"projectsDo", "regionsDo", "projectLoop", "regionLoop"}

\* the counter that decides about another attempt: rehttp's attempt index,
\* the loop's n
Counter(t) == IF rev = RevBackoff THEN n[t] ELSE attempt[t]

\* every call counts its own attempts only: the counter is 0 when the
\* call begins and, before every attempt, is the number of attempts the
\* call has made
FreshCounter(t) ==
    /\ CallBegins(t) => (n'[t] = 0 /\ attempt'[t] = 0 /\ sent'[t] = <<>>)
    /\ Calling(t) => Counter(t) = Len(sent[t])

\* the call that ends on a 503 has had its full budget, the retries
\* allowed plus one attempts
FullBudget(t) ==
    (CallEnds(t) /\ Script(t) # <<>> /\ Script(t)[Len(Script(t))] = 503) =>
        Len(Script(t)) = RetriesAllowed + 1

\* C20: each upstream call starts with a fresh attempt counter, so that
\* whatever the project call of the cycle and the calls of earlier cycles
\* used up, a call is given up on a retryable status only after its full
\* retries allowed plus one attempts
ClaimC20 ==
    [][\A t \in Collectors : FreshCounter(t) /\ FullBudget(t)]_vars

\* the counters are fresh in all revisions, and the rehttp transport of
\* RevUp and RevDual gives every call its full budget
FreshKeepsC20 ==
    [][\A t \in Collectors :
          FreshCounter(t) /\ (rev # RevBackoff => FullBudget(t))]_vars

\* the region call of a cycle is at its last retry although the project
\* call of the same cycle has failed
RegionCallRetriesInFull ==
    \E t \in Collectors :
        /\ rev = RevDual
        /\ gcpMaxRetries = MaxRetries
        /\ answered[t].project = "failed"
        /\ pc[t] = "regionsDo"
        /\ attempt[t] = gcpMaxRetries

(* ------------------------------ the sleeps ----------------------------- *)
\* the part of the sleep after attempt number k that the retry policy
\* fixes: min(maxBackoff, base * 2^k)
Backoff(k) == Min(gcpMaxBackoffDuration, gcpBackoffJitterBase * Pow2(k))

\* the i-th sleep of a call follows attempt number i - 1
\* its length is within the policy's bounds (RevUp, RevDual: the revisions
\* that have --gcp.max-backoff and --gcp.backoff-jitter)
SleepInBounds(t, i) ==
    rev # RevBackoff =>
        /\ slept[t][i].fixed + slept[t][i].jitter >= Backoff(i - 1)
        /\ slept[t][i].fixed + slept[t][i].jitter
               <= gcpMaxBackoffDuration + gcpBackoffJitterBase
\* its fixed part is twice that of the sleep before, a cap apart
SleepDoubles(t, i) ==
    i > 1 =>
        \/ slept[t][i].fixed = 2 * slept[t][i - 1].fixed
        \/ rev # RevBackoff /\ slept[t][i].fixed = gcpMaxBackoffDuration

\* C21: the sleep before the retry that follows attempt number n is
\* min(maxBackoff, base * 2^n) plus a jitter of at most the jitter base: it
\* is never shorter than min(maxBackoff, base * 2^n), never longer than
\* maxBackoff plus the jitter base, and its fixed part doubles from one
\* attempt to the next until the cap
ClaimC21 ==
    \A t \in Collectors :
        \A i \in DOMAIN slept[t] : SleepInBounds(t, i) /\ SleepDoubles(t, i)

\* what the sleeps are: in RevUp and RevDual all of the sleep is random
\* and it is shorter than min(maxBackoff, base * 2^n); in RevBackoff the
\* fixed part is 2 xor n nanoseconds
SleepsAsCoded ==
    \A t \in Collectors :
        \A i \in DOMAIN slept[t] :
            IF rev = RevBackoff
            THEN slept[t][i].fixed = Xor2(i - 1) /\ slept[t][i].jitter \in SleepTicks
            ELSE /\ slept[t][i].fixed = 0
                 /\ slept[t][i].jitter < Backoff(i - 1)

\* calls that have slept twice
RehttpSleptTwice ==
    \E t \in Collectors : rev = RevDual /\ Len(slept[t]) = 2 /\ slept[t][2].jitter = 1
LoopSleptTwice ==
    \E t \in Collectors : rev = RevBackoff /\ Len(slept[t]) = 2

(* ------------------------------ progress ------------------------------- *)
\* a Collect invocation of goroutine t is under way
Underway(t) == pc[t] \notin {"idle", "done"}

\* C22: under fair scheduling, with an upstream that returns every
\* request, every Collect invocation under way eventually returns and
\* every Collect waiting for the mutex eventually holds it, whatever the
\* upstream calls of the cycles before it end in
ClaimC22 ==
    \A t \in Collectors :
        /\ Underway(t) ~> pc[t] = "done"
        /\ pc[t] = "lock" ~> mutex = t

\* no Collect waits for ever on a running process: every invocation
\* under way eventually returns, unless the process ends first
ReturnsOrProcessEnds ==
    \A t \in Collectors :
        /\ Underway(t) ~> (pc[t] = "done" \/ ~Running)
        /\ pc[t] = "lock" ~> (mutex = t \/ ~Running)

\* RevDual keeps to C22
DualKeepsC22 ==
    \A t \in Collectors :
        /\ (rev = RevDual /\ Underway(t)) ~> pc[t] = "done"
        /\ (rev = RevDual /\ pc[t] = "lock") ~> mutex = t

(* ------------------------- requests in flight -------------------------- *)
\* goroutine t is in its project call, in its region call: from Do() to
\* its return, retries and sleeps included
InProjectCall(t) == pc[t] \in {"projectsDo", "projectLoop"}
InRegionCall(t) == pc[t] \in {"regionsDo", "regionLoop"}
InCall(t) == InProjectCall(t) \/ InRegionCall(t)

\* C23: at most one upstream call of the Exporter is in progress and the
\* goroutine in it holds the mutex; the region call of a cycle is made
\* only when its project call has returned; the Collect that Describe
\* runs takes the same mutex, so that no other call is in progress
\* beside one of its calls
TheoremC23 ==
    \A t \in Collectors :
        /\ InCall(t) =>
               /\ mutex = t
               /\ \A u \in Collectors : InCall(u) => u = t
        /\ (InRegionCall(t) \/ pc[t] = "regionsList") =>
               answered[t].project # "none"
        /\ (describing = t /\ InCycle(t)) =>
               /\ mutex = t
               /\ \A u \in Collectors : u # t => ~InCall(u)

\* the region call of a cycle is at its first retry, its project call
\* having failed, while another Collect waits for the mutex
WitnessC23 ==
    \E t, u \in Collectors :
        /\ pc[t] = "regionsDo"
        /\ attempt[t] = 1
        /\ answered[t].project = "failed"
        /\ pc[u] = "lock"

\* a call of the Collect that Describe runs is in progress
DescribeInCall ==
    /\ mainpc = "describe"
    /\ describing # 0
    /\ InRegionCall(describing)

====
